---- MODULE Spec2Model ----
(***************************************************************************)
(* Model of KBSBooker.run (src/kbs_booker_bot.py): the login / facility    *)
(* discovery / token / poll / book / confirm control loop of one           *)
(* controller instance, with the fallback-facility retry.                  *)
(*                                                                         *)
(* The site is the environment: every response (login page, facility      *)
(* list, calendar page, check.php, booking handler, confirmation, the     *)
(* notification endpoint) is a nondeterministic choice.  Time is counted   *)
(* in whole seconds of time.sleep; requests are taken as instantaneous,    *)
(* and a clock read may lie a positive fraction of a second beyond the     *)
(* whole-second count (the flag `late`).  The clock is measured from the   *)
(* start of the current run.                                               *)
(*                                                                         *)
(* Spec is the controller run after run.  SpecVenue is steps 1 to 3 of run *)
(* with the venue polled as far as its 3000-second cap.  SpecPure applies  *)
(* check_slot, the price rule of book_slot, the day-target functions and   *)
(* login to their arguments, one call at a time.                           *)
(***************************************************************************)
EXTENDS Integers, Sequences, FiniteSets, TLC

\* ------------------------------------------------------------- bounds
MaxFacilities == 2
MaxVenuePolls == 2
MaxRuns == 2
\* fetches of the facility list it takes to reach the 3000-second cap
MaxVenuePollsToCap == 1001

\* -------------------------------------------------- program constants
VENUE_POLL_INTERVAL == 3
VENUE_POLL_CAP == 3000
STALE_AFTER == 2400
RETRY_DELAY == 1
FACILITY_ID_NUM == 114
TJK_ID == 624
RETRY_FACILITY_ID_NUM == 202
RETRY_TJK_ID == 625
DAY_RATE == 10
NIGHT_RATE == 15
NIGHT_FROM == 19

\* ------------------------------------------------------ input domains
NoToken == ""
Tokens == {"tokA"}
NoName == "None"
CliEncoded == "encCli"
\* the encoded id of the i-th facility link of a listing page
Encoded(i) == IF i = 1 THEN "enc1" ELSE IF i = 2 THEN "enc2" ELSE "enc3"
FacilityIndexes == 0..MaxFacilities
\* <<>> stands for None, <<i>> for the index i
RetryIndexes == {<<>>} \cup {<<i>> : i \in (-1)..(MaxFacilities - 1)}
\* <<poll_timeout, check_interval>>
RunParams == {<<0, 1>>, <<1, 1>>}
\* the idp values of modifyhandler2.php links, as the digits matched
BookingIds == {<<"9">>, <<"1", "0">>}
\* tempahan_addhandler.php responses: the classification of the response and
\* the idp values of the modifyhandler2.php links of its body
BookResponses ==
    {[success |-> FALSE, idps |-> {}]}
      \cup {[success |-> TRUE, idps |-> s] : s \in SUBSET BookingIds}
\* the same responses, and those classified unsuccessful that hold links
AllBookResponses == [success : BOOLEAN, idps : SUBSET BookingIds]
\* tempahan_addcal.php responses: the ks_token a pattern matches, or none
PageTokens == Tokens \cup {NoToken}
\* the three pages get_calendar_page is answered with, each with the token
\* text one of the patterns would match in it, or none
PageResponses ==
    { [ tempahan_home |-> early[1], tempahan_listfasiliti |-> early[2],
        tempahan_addcal |-> found ] :
        early \in {<<NoToken, NoToken>>, <<"tokHome", "tokList">>},
        found \in PageTokens }
\* no page asked for
NoPages == [ tempahan_home |-> NoToken, tempahan_listfasiliti |-> NoToken,
            tempahan_addcal |-> NoToken ]
\* Texts are sequences of one-character strings
TIADA == <<"t", "i", "a", "d", "a">>
AvailableTexts ==
    { <<>>, <<"0">>, <<"o", "k">>,
      <<"a", "v", "a", "i", "l", "a", "b", "l", "e">> }
\* check.php bodies
Bodies ==
    AvailableTexts
      \cup { <<"1">>, <<" ", "1", "\n">>, <<"O", "K", "\n">>, <<"2">>,
             <<"p", "e", "n", "u", "h">>, TIADA,
             <<"T", "i", "a", "d", "a", " ", "k", "o", "s", "o", "n", "g">>,
             <<"s", "l", "o", "t", " ", "t", "i", "a", "d", "a", "\n">>,
             <<"t", "i", "d", "a", "k">> }
\* the bodies the run is answered with
CheckResponses ==
    { <<>>, <<"1">>,
      <<"T", "i", "a", "d", "a", " ", "k", "o", "s", "o", "n", "g">> }

\* login.php pages: whether a pattern finds the hidden field key / value
LoginPages == [key : BOOLEAN, value : BOOLEAN]
\* login_handler.php responses: whether the final URL holds "home.php" and
\* whether the lower-cased body holds "logout", "log keluar", "selamat datang"
LoginResponses ==
    [url_home : BOOLEAN, logout : BOOLEAN, log_keluar : BOOLEAN,
     selamat_datang : BOOLEAN]

\* <<time_start, time_end>>; "7pm" is a string strptime("%H:%M:%S") rejects
TimeSlots == {<<"19:00:00", "21:00:00">>, <<"7pm", "21:00:00">>}

Configs0 ==
    [ facility_id_encoded : {CliEncoded, Encoded(1)},
      facility_id : {FACILITY_ID_NUM},
      tjk_id : {TJK_ID},
      facility_index : FacilityIndexes,
      retry_facility_index : RetryIndexes,
      retry_facility_id_num : {0, RETRY_FACILITY_ID_NUM},
      retry_tjk_id : {RETRY_TJK_ID},
      time_start : {slot[1] : slot \in TimeSlots},
      time_end : {slot[2] : slot \in TimeSlots} ]

Configs == {cfg \in Configs0 : <<cfg.time_start, cfg.time_end>> \in TimeSlots}

VARIABLES
    logged_in, cached_facilities, ks_token,
    config, poll_timeout, check_interval,
    pc, facilities, fresh_facility_id,
    now, start_time, venue_poll_start, venue_poll_count,
    elapsed, late, check_count, original_num, original_tjk,
    result, outcome, error,
    run_no, config0, before_swap, retried,
    n_checks, n_unavail, n_sleeps, n_primary, n_fallback, n_ok,
    n_confirms, n_notify, notify_failed, last_submit, last_confirm,
    was_logged_in, n_login_get, n_login_post,
    n_pages, n_page_gets, last_page_gets, token_page,
    call, ret,
    cli, clock_day, main_pc, results, exit_code,
    day_procs, result_files, summary

ctrl == <<logged_in, cached_facilities, ks_token>>
args == <<config, poll_timeout, check_interval>>
locals == <<pc, facilities, fresh_facility_id, now, start_time,
            venue_poll_start, venue_poll_count, elapsed, late, check_count,
            original_num, original_tjk, result, outcome, error>>
hist == <<run_no, config0, before_swap, retried, n_checks, n_unavail,
          n_sleeps, n_primary, n_fallback, n_ok, n_confirms, n_notify,
          notify_failed, last_submit, last_confirm>>
login_hist == <<was_logged_in, n_login_get, n_login_post>>
\* the calls of get_calendar_page in this run, the GET requests they issued,
\* the requests of the last call, and the call that set the ks_token held:
\* <<[at, left]>> with the time of the call on the clock of this run and
\* whether tempahan_home.php or tempahan_listfasiliti.php was requested
\* since, or <<>> with no token held and with a token whose fetch is not
\* followed
page_hist == <<n_pages, n_page_gets, last_page_gets, token_page>>
\* the last function applied on its own, with its arguments and its result
pure == <<call, ret>>
\* main: the parsed arguments, the weekday of datetime.now() (0 for Monday), the position
\* of main, the results of the runs so far, and the exit code of the process
main_vars == <<cli, clock_day, main_pc, results, exit_code>>
\* the single-day processes by day offset, the booking_result_<n>.json files
\* of the working directory, and what the summary report has made of them
day_vars == <<day_procs, result_files, summary>>
\* what no step of run writes
others == <<pure, main_vars, day_vars>>
vars == <<ctrl, args, locals, hist, login_hist, page_hist, pure, main_vars,
          day_vars>>

\* ------------------------------------------------------ pure helpers
FacilityList(n) == [i \in 1..n |-> [facility_id_encoded |-> Encoded(i)]]

\* Python list indexing with an index list[i], 0-based, i >= 0
IndexInRange(list, i) == i >= 0 /\ i < Len(list)
At(list, i) == list[i + 1]

NoResult == [success |-> FALSE, court_name |-> "unset"]
NoSubmit == [kind |-> "none", ks_token |-> NoToken, idfasiliti |-> 0,
             tjkid |-> 0, tt_jumlah_jam |-> 0, tt_jumlah |-> 0,
             success |-> FALSE, booking_id |-> <<>>]
NoConfirm == [idp |-> <<>>, tot |-> 0, success |-> FALSE]
NoCall ==
    [ fn |-> "none", body |-> <<>>, time_start |-> "", time_end |-> "",
      day_offset |-> 0, today |-> 0, success |-> FALSE, idps |-> {},
      mode |-> "none", cli |-> <<>>, date |-> 0,
      page |-> [key |-> FALSE, value |-> FALSE],
      resp |-> [url_home |-> FALSE, logout |-> FALSE, log_keluar |-> FALSE,
                selamat_datang |-> FALSE] ]
NoRet ==
    [ available |-> FALSE, hours |-> 0, rate |-> 0, tt_jumlah_jam |-> 0,
      tt_jumlah |-> 0, raised |-> "none", targets |-> <<>>, posts |-> 0,
      returned |-> FALSE, success |-> FALSE, booking_id |-> <<>>,
      config |-> <<>> ]
NoSnapshot == [facility_id_encoded |-> "unset", facility_id |-> 0, tjk_id |-> 0]

\* the empty --date
NoDate == -1
\* main: the defaults of the arguments; <<>> stands for a --day-offset of None
CliDefaults ==
    [ venue_id |-> "venueCli", facility_id |-> CliEncoded,
      facility_id_num |-> FACILITY_ID_NUM, tjk_id |-> TJK_ID,
      retry_facility_index |-> <<1>>, retry_facility_id |-> "encRetryCli",
      retry_facility_id_num |-> RETRY_FACILITY_ID_NUM,
      retry_tjk_id |-> RETRY_TJK_ID, venue_id_num |-> 2, neg |-> "07",
      facility_index |-> 0, num_users |-> "4", purpose |-> "4",
      poll_timeout |-> 3600, check_interval |-> 1,
      date |-> NoDate, time_start |-> "", time_end |-> "",
      book_week |-> FALSE, day_offset |-> <<>> ]

\* main not entered
NoMain ==
    /\ cli = CliDefaults
    /\ clock_day = 0
    /\ main_pc = "none"
    /\ results = <<>>
    /\ exit_code = <<>>

\* the day offsets single-day processes are started with: the five weekdays
\* and one offset out of range
DayProcesses == 0..5
NoProcess == [pc |-> "unused", outcome |-> "none"]
\* a file that does not exist; json is <<>> as long as no text was written
NoFile == [exists |-> FALSE, json |-> <<>>]
\* no single-day process started, no result file
NoDays ==
    /\ day_procs = [o \in DayProcesses |-> NoProcess]
    /\ result_files = [o \in DayProcesses |-> NoFile]
    /\ summary = <<>>

\* KBSBooker.__init__, and the arguments main passes to run
InitWith(configs, params) ==
    /\ logged_in = FALSE
    /\ cached_facilities = <<>>
    /\ ks_token = NoToken
    /\ config \in configs
    /\ \E p \in params : poll_timeout = p[1] /\ check_interval = p[2]
    /\ pc = "login"
    /\ facilities = <<>>
    /\ fresh_facility_id = "unset"
    /\ now = 0
    /\ start_time = 0
    /\ venue_poll_start = 0
    /\ venue_poll_count = 0
    /\ elapsed = 0
    /\ late = FALSE
    /\ check_count = 0
    /\ original_num = 0
    /\ original_tjk = 0
    /\ result = NoResult
    /\ outcome = "none"
    /\ error = "none"
    /\ run_no = 1
    /\ config0 = config
    /\ before_swap = NoSnapshot
    /\ retried = FALSE
    /\ n_checks = 0
    /\ n_unavail = 0
    /\ n_sleeps = 0
    /\ n_primary = 0
    /\ n_fallback = 0
    /\ n_ok = 0
    /\ n_confirms = 0
    /\ n_notify = 0
    /\ notify_failed = FALSE
    /\ last_submit = NoSubmit
    /\ last_confirm = NoConfirm
    /\ was_logged_in = FALSE
    /\ n_login_get = 0
    /\ n_login_post = 0
    /\ call = NoCall
    /\ n_pages = 0
    /\ n_page_gets = 0
    /\ last_page_gets = <<>>
    /\ token_page = <<>>
    /\ ret = NoRet

\* every config with each of RunParams; the configs of the first facility
\* also with a poll of three checks, at 0 s, 1 s and 2 s, and with one that
\* puts the second check at 2400 s or 2401 s
Init ==
    /\ \/ InitWith(Configs, RunParams)
       \/ InitWith({cfg \in Configs : /\ cfg.facility_index = 0
                                     /\ cfg.facility_id_encoded = CliEncoded},
                   {<<2, 1>>, <<2401, 2400>>})
    /\ NoMain
    /\ NoDays

\* ------------------------------------------------- modelled code parts
\* datetime.strptime(t, "%H:%M:%S"): the hour of a well-formed time on the
\* hour; any other string raises ValueError
Clocks ==
    { <<"00:00:00", 0, 0, 0>>, <<"08:00:00", 8, 0, 0>>, <<"10:00:00", 10, 0, 0>>,
      <<"10:30:00", 10, 30, 0>>, <<"12:00:00", 12, 0, 0>>,
      <<"18:00:00", 18, 0, 0>>, <<"18:59:59", 18, 59, 59>>,
      <<"19:00:00", 19, 0, 0>>, <<"19:00:01", 19, 0, 1>>,
      <<"20:00:00", 20, 0, 0>>, <<"21:00:00", 21, 0, 0>>,
      <<"22:00:00", 22, 0, 0>>, <<"23:59:59", 23, 59, 59>> }
ClockOf(t) == CHOOSE c \in Clocks : c[1] = t
HourOf == [t \in {c[1] : c \in Clocks} |-> ClockOf(t)[2]]
SecondsOf ==
    [t \in {c[1] : c \in Clocks} |->
       ClockOf(t)[2] * 3600 + ClockOf(t)[3] * 60 + ClockOf(t)[4]]
Parses(t) == t \in DOMAIN HourOf

\* int((end - start).seconds / 3600); timedelta.seconds lies in 0..86399
Hours(time_start, time_end) ==
    ((SecondsOf[time_end] - SecondsOf[time_start]) % 86400) \div 3600

\* the night rate applied only after 19:00
Mut_RateNightAfter19(start_hour) ==
    IF start_hour <= NIGHT_FROM THEN DAY_RATE ELSE NIGHT_RATE

\* 10 if start.hour < 19 else 15
HourlyRate(start_hour) == IF start_hour < NIGHT_FROM THEN DAY_RATE ELSE NIGHT_RATE

\* run: the strptime calls made once the slot is reported available
TimesRaise(cfg) == ~Parses(cfg.time_start) \/ ~Parses(cfg.time_end)

\* run: total_price = str(hours * hourly_rate) of the confirmation request
ConfirmTotal(cfg) ==
    Hours(cfg.time_start, cfg.time_end) * HourlyRate(HourOf[cfg.time_start])

\* book_slot: hours falls back to 1 when a time does not parse, start_hour
\* to 19 when time_start does not
SlotHours(cfg) ==
    IF Parses(cfg.time_start) /\ Parses(cfg.time_end)
    THEN Hours(cfg.time_start, cfg.time_end) ELSE 1
SlotRate(cfg) ==
    HourlyRate(IF Parses(cfg.time_start) THEN HourOf[cfg.time_start]
               ELSE NIGHT_FROM)
\* total_price = config.get("total_price") or str(hours * hourly_rate); a
\* config built by main holds no "total_price"; <<>> stands for None and
\* <<n>> for the decimal text of n
SlotTotal(cfg) ==
    IF "total_price" \in DOMAIN cfg /\ cfg.total_price # <<>>
    THEN cfg.total_price[1]
    ELSE SlotHours(cfg) * SlotRate(cfg)

\* Dates are counted in days, day 0 a Monday: datetime.weekday()
WeekdayOf(date) == date % 7

\* today + timedelta(weeks=8), and the Monday of that week
FutureDate(today) == today + 56
\* the Monday after that week's days
Mut_MondayAfter(today) == FutureDate(today) - WeekdayOf(FutureDate(today)) + 7

\* target_monday = future_date - timedelta(days=future_date.weekday())
TargetMonday(today) == FutureDate(today) - WeekdayOf(FutureDate(today))

\* get_weekly_booking_targets: time_slots
WeeklySlot(day_offset) ==
    IF day_offset = 4 THEN <<"20:00:00", "22:00:00">>
    ELSE <<"19:00:00", "21:00:00">>

\* get_single_day_target: time_slots
SingleDaySlot(day_offset) ==
    CASE day_offset = 1 -> <<"19:00:00", "21:00:00">>
      [] day_offset = 4 -> <<"20:00:00", "22:00:00">>
      [] OTHER -> <<"21:00:00", "22:00:00">>

DayNames == <<"Monday", "Tuesday", "Wednesday", "Thursday", "Friday">>

\* get_single_day_target: ValueError outside 0..4, else the target of the
\* day; target_date is the date before strftime("%d/%m/%Y")
SingleDayRaises(day_offset) == day_offset < 0 \/ day_offset > 4
SingleDayTarget(day_offset, today) ==
    [ target_date |-> TargetMonday(today) + day_offset,
      time_start |-> SingleDaySlot(day_offset)[1],
      time_end |-> SingleDaySlot(day_offset)[2],
      day_name |-> DayNames[day_offset + 1] ]

\* get_weekly_booking_targets: the five targets, Monday first; main names
\* the i-th of them day_names[i]
WeeklyTargets(today) ==
    [ i \in 1..5 |->
        [ target_date |-> TargetMonday(today) + (i - 1),
          time_start |-> WeeklySlot(i - 1)[1],
          time_end |-> WeeklySlot(i - 1)[2],
          day_name |-> DayNames[i] ] ]

\* login(): not key_match or not value_match returns False before the POST
TokensFound(page) == page.key /\ page.value

\* only the redirect to home.php taken as the sign of a login
Mut_IndicatorUrlOnly(resp) == resp.url_home

\* login(): logged_in = "home.php" in resp.url or ... in resp.text.lower()
SuccessIndicator(resp) ==
    resp.url_home \/ resp.logout \/ resp.log_keluar \/ resp.selamat_datang

\* login(): True only with both hidden tokens and a success indicator
LoginOk(tokens_found, indicator) == tokens_found /\ indicator

\* login(): the requests sent and the value returned
Login(page, resp) ==
    [ gets |-> 1,
      posts |-> IF TokensFound(page) THEN 1 ELSE 0,
      returned |-> LoginOk(TokensFound(page), SuccessIndicator(resp)) ]

\* run, step 1, calling login() whatever self.logged_in holds
Mut_NeverSkipLogin(li) == FALSE

\* run, step 1: login() is not called when self.logged_in is set
SkipLogin(li) == li

\* run, step 2: venue_poll_timeout = min(poll_timeout, 3000)
VenuePollTimeout(pt) == IF pt < VENUE_POLL_CAP THEN pt ELSE VENUE_POLL_CAP

\* the venue timeout tested with > instead of >=
Mut_VenueTimedOutStrict(el, pt) == el > VenuePollTimeout(pt)

\* run, step 2: elapsed >= venue_poll_timeout
VenueTimedOut(el, pt) == el >= VenuePollTimeout(pt)

\* run, after step 2: an index beyond the list is replaced by 0
SelectIndex(fi, list) == IF fi >= Len(list) THEN 0 ELSE fi

\* run, step 3, with the test for a missing token left out
Mut_TokenNeverAborts(tok) == FALSE

\* run, step 3: the run is abandoned when no token is held
TokenAbort(tok) == tok = NoToken

\* get_calendar_page assigning the outcome of the search, match or not
Mut_TokenClearedOnMiss(old, found) == found

\* get_calendar_page: ks_token is overwritten only by a match
TokenAfterPage(old, found) == IF found = NoToken THEN old ELSE found

\* the calendar page asked for before the listing page
Mut_ListBeforeHome ==
    <<"tempahan_listfasiliti", "tempahan_home", "tempahan_addcal">>

\* get_calendar_page: the pages it GETs, in order
CalendarPageGets ==
    <<"tempahan_home", "tempahan_listfasiliti", "tempahan_addcal">>

\* get_calendar_page: the three GETs, and the token searched for in the text
\* of the last response only
GetCalendarPage(old, resps) ==
    [ gets |-> CalendarPageGets,
      ks_token |-> TokenAfterPage(old, resps.tempahan_addcal) ]

\* the timeout test granting one more check_interval
Mut_TimedOutGrace(el, lt, pt) == el > pt + check_interval

\* run, step 4: elapsed > poll_timeout, elapsed a float
TimedOut(el, lt, pt) == el > pt \/ (el = pt /\ lt)

\* str.strip(): leading and trailing whitespace removed
IsSpace(c) == c \in {" ", "\n", "\t"}
RECURSIVE StripLeft(_)
StripLeft(s) ==
    IF s # <<>> /\ IsSpace(Head(s)) THEN StripLeft(Tail(s)) ELSE s
RECURSIVE StripRight(_)
StripRight(s) ==
    IF s # <<>> /\ IsSpace(s[Len(s)])
    THEN StripRight(SubSeq(s, 1, Len(s) - 1)) ELSE s
Strip(s) == StripRight(StripLeft(s))

\* str.lower(), over the letters the bodies are written with
LowerChar(c) ==
    CASE c = "A" -> "a" [] c = "D" -> "d" [] c = "I" -> "i" [] c = "K" -> "k"
      [] c = "O" -> "o" [] c = "T" -> "t" [] OTHER -> c
Lower(s) == [i \in 1..Len(s) |-> LowerChar(s[i])]

\* sub in s
Contains(s, sub) ==
    \E i \in 1..(Len(s) - Len(sub) + 1) : SubSeq(s, i, i + Len(sub) - 1) = sub

\* check_slot: available = text in ["", "0", "ok", "available"] or "tiada" not in text
Available(text) == text \in AvailableTexts \/ ~Contains(text, TIADA)

\* check_slot: text = resp.text.strip().lower(), and the classification
CheckSlot(body) == [available |-> Available(Lower(Strip(body))), text |-> body]

\* the token refreshed from 2400 s on
Mut_RefreshFrom2400(el, lt) == el >= STALE_AFTER

\* run, step 4: the token is refreshed when elapsed > 2400
NeedsRefresh(el, lt) == el > STALE_AFTER \/ (el = STALE_AFTER /\ lt)

\* int(s) for a string of decimal digits
Digits == <<"0", "1", "2", "3", "4", "5", "6", "7", "8", "9">>
DigitValue(c) == (CHOOSE i \in 1..10 : Digits[i] = c) - 1
RECURSIVE IntOf(_)
IntOf(t) ==
    IF t = <<>> THEN 0
    ELSE 10 * IntOf(SubSeq(t, 1, Len(t) - 1)) + DigitValue(t[Len(t)])

\* the matches compared as strings, max(matches)
RECURSIVE Mut_TextLeq(_, _)
Mut_TextLeq(a, b) ==
    \/ a = <<>>
    \/ /\ b # <<>>
       /\ \/ DigitValue(Head(a)) < DigitValue(Head(b))
          \/ Head(a) = Head(b) /\ Mut_TextLeq(Tail(a), Tail(b))
Mut_MaxAsText(S) == CHOOSE m \in S : \A x \in S : Mut_TextLeq(x, m)

\* max(matches, key=int)
SetMax(S) == CHOOSE m \in S : \A x \in S : IntOf(x) <= IntOf(m)

\* _extract_booking_id: the highest idp of the body, None without any
ExtractBookingId(idps) == IF idps = {} THEN <<>> ELSE <<SetMax(idps)>>

\* book_slot: the form fields taken from the controller and the config, and
\* the classification of the response
BookSlot(kind, cfg, tok, resp) ==
    [ kind |-> kind, ks_token |-> tok, idfasiliti |-> cfg.facility_id,
      tjkid |-> cfg.tjk_id, tt_jumlah_jam |-> SlotHours(cfg),
      tt_jumlah |-> SlotTotal(cfg), success |-> resp.success,
      booking_id |-> IF resp.success THEN ExtractBookingId(resp.idps) ELSE <<>> ]

\* run: "Gelanggang Tenis 1" for index 0, "Gelanggang Tenis 2" otherwise
FacilityLabel(i) == IF i = 0 THEN "Gelanggang Tenis 1" ELSE "Gelanggang Tenis 2"

\* the fallback booking reported under the primary facility's label
Mut_RetryNamePrimary(cfg, retry_index) == FacilityLabel(cfg.facility_index)

\* run: the label returned after a successful primary / fallback booking
PrimaryName(cfg) == FacilityLabel(cfg.facility_index)
RetryName(cfg, retry_index) == FacilityLabel(retry_index)

\* the confirmation requested whether or not a booking id was found
Mut_AlwaysConfirm(booking_id) == TRUE

\* run: a confirmation is requested only with a booking id
ShouldConfirm(booking_id) == booking_id # <<>>

\* send_telegram without its try / except
Mut_TelegramPropagates == FALSE

\* send_telegram: the try / except around requests.post swallows the failure
TelegramSwallowed == TRUE

\* the fallback tried whenever an index is configured, booked or not
Mut_RetryEvenOnSuccess(success, cfg) ==
    IF cfg.retry_facility_index # <<>> THEN "retry"
    ELSE IF success THEN "return" ELSE "sleep"

\* run: what follows the booking of the primary facility: the confirmation
\* and the return on success; on failure the fallback when an index is
\* configured, the end of the iteration otherwise
AfterPrimary(success, cfg) ==
    IF success THEN "return"
    ELSE IF cfg.retry_facility_index # <<>> THEN "retry" ELSE "sleep"

\* the fallback submitted again after it failed
Mut_FallbackAgain == "retry"

\* run: a fallback submission classified failed ends the iteration: the
\* flow falls through to time.sleep(check_interval)
AfterFallback == "sleep"

\* run: 0 <= retry_index < len(facilities)
RetryIndexValid(retry_index, list) == 0 <= retry_index /\ retry_index < Len(list)

\* run: the switch of config to the fallback facility
SwapToFallback(cfg, new_facility) ==
    [cfg EXCEPT
       !.facility_id_encoded = new_facility.facility_id_encoded,
       !.facility_id = IF cfg.retry_facility_id_num # 0
                       THEN cfg.retry_facility_id_num ELSE @,
       !.tjk_id = IF cfg.retry_tjk_id # 0 THEN cfg.retry_tjk_id ELSE @]

\* run: the revert reads facilities[config["facility_index"]] of the list
\* fetched for the retry; an index beyond it raises IndexError
RevertRaises(cfg, list) == ~IndexInRange(list, cfg.facility_index)

\* the revert restoring the encoded id only
Mut_RevertEncodedOnly(cfg, list, onum, otjk) ==
    [cfg EXCEPT
       !.facility_id_encoded = At(list, cfg.facility_index).facility_id_encoded]

\* run: after a failed fallback submission config takes the encoded id of
\* the primary facility from the list and the saved numeric and slot-type ids
RevertToPrimary(cfg, list, onum, otjk) ==
    [cfg EXCEPT
       !.facility_id_encoded = At(list, cfg.facility_index).facility_id_encoded,
       !.facility_id = onum,
       !.tjk_id = otjk]

Snapshot(cfg) ==
    [facility_id_encoded |-> cfg.facility_id_encoded,
     facility_id |-> cfg.facility_id, tjk_id |-> cfg.tjk_id]

\* ------------------------------------------------------------ actions
\* return {"success": ..., "court_name": ...}
Return(success, name, why) ==
    /\ pc' = "done"
    /\ result' = [success |-> success, court_name |-> name]
    /\ outcome' = why

\* Step 1: login, skipped when already logged in
Step1Login ==
    /\ pc = "login"
    /\ IF SkipLogin(logged_in)
       THEN /\ pc' = "facilities"
            /\ UNCHANGED <<logged_in, result, outcome, n_login_get,
                           n_login_post>>
       ELSE \E page \in LoginPages, resp \in LoginResponses :
              LET done == Login(page, resp)
              IN /\ n_login_get' = n_login_get + done.gets
                 /\ n_login_post' = n_login_post + done.posts
                 /\ IF done.returned
                    THEN /\ logged_in' = TRUE
                         /\ pc' = "facilities"
                         /\ UNCHANGED <<result, outcome>>
                    ELSE /\ Return(FALSE, NoName, "login_failed")
                         /\ UNCHANGED logged_in
    /\ UNCHANGED <<was_logged_in, page_hist, others>>
    /\ UNCHANGED <<cached_facilities, ks_token, args, facilities,
                   fresh_facility_id, now, start_time, venue_poll_start,
                   venue_poll_count, elapsed, late, check_count, original_num,
                   original_tjk, error, hist>>

\* the list fetched again in every run
Mut_NeverUseCache(cached) == FALSE

\* run, step 2: if self._cached_facilities
UseCache(cached) == cached # <<>>

\* Step 2: the cached facility list, or the start of venue polling
Step2Facilities ==
    /\ UNCHANGED <<login_hist, page_hist, others>>
    /\ pc = "facilities"
    /\ IF UseCache(cached_facilities)
       THEN /\ facilities' = cached_facilities
            /\ pc' = "token"
            /\ UNCHANGED <<venue_poll_start, venue_poll_count>>
       ELSE /\ venue_poll_start' = now
            /\ venue_poll_count' = 0
            /\ pc' = "venue_poll"
            /\ UNCHANGED facilities
    /\ UNCHANGED <<ctrl, args, fresh_facility_id, now, start_time, elapsed,
                   late, check_count, original_num, original_tjk, result,
                   outcome, error, hist>>

\* Step 2: one pass of the venue polling loop
VenuePollUpTo(max_polls) ==
    /\ UNCHANGED <<login_hist, page_hist, others>>
    /\ pc = "venue_poll"
    /\ venue_poll_count < max_polls
    /\ \E n \in 0..MaxFacilities :
         /\ facilities' = FacilityList(n)
         /\ venue_poll_count' = venue_poll_count + 1
         /\ elapsed' = now - venue_poll_start
         /\ IF n > 0
            THEN /\ cached_facilities' = FacilityList(n)
                 /\ pc' = "token"
                 /\ UNCHANGED <<now, result, outcome>>
            ELSE /\ UNCHANGED cached_facilities
                 /\ IF VenueTimedOut(now - venue_poll_start, poll_timeout)
                    THEN /\ Return(FALSE, NoName, "no_facilities")
                         /\ UNCHANGED now
                    ELSE /\ now' = now + VENUE_POLL_INTERVAL
                         /\ UNCHANGED <<pc, result, outcome>>
    /\ UNCHANGED <<logged_in, ks_token, args, fresh_facility_id, start_time,
                   venue_poll_start, late, check_count, original_num,
                   original_tjk, error, hist>>

VenuePoll == VenuePollUpTo(MaxVenuePolls)

\* the id of the selected facility written to config
Mut_ConfigTakesFreshId(cfg, fresh) ==
    [cfg EXCEPT !.facility_id_encoded = fresh]

\* run, step 2: the encoded id of the selected facility is kept in the local
\* fresh_facility_id; config is left as it was passed
ConfigAfterSelection(cfg, fresh) == cfg

\* get_facility_list and get_calendar_page request tempahan_home.php and
\* tempahan_listfasiliti.php: the page the token was set from is left
LeftPage(page) ==
    IF page = <<>> THEN <<>> ELSE <<[page[1] EXCEPT !.left = TRUE]>>

\* Facility selection and step 3: the calendar page, skipped with a token held
Step3Token ==
    /\ UNCHANGED <<login_hist, others>>
    /\ pc = "token"
    /\ fresh_facility_id' =
         At(facilities, SelectIndex(config.facility_index, facilities)).facility_id_encoded
    /\ \E resps \in (IF ks_token = NoToken THEN PageResponses ELSE {NoPages}) :
         LET fetch == ks_token = NoToken
             tok == IF fetch THEN GetCalendarPage(ks_token, resps).ks_token
                    ELSE ks_token
         IN /\ ks_token' = tok
            /\ n_pages' = IF fetch THEN n_pages + 1 ELSE n_pages
            /\ n_page_gets' =
                 IF fetch
                 THEN n_page_gets + Len(GetCalendarPage(ks_token, resps).gets)
                 ELSE n_page_gets
            /\ last_page_gets' =
                 IF fetch THEN GetCalendarPage(ks_token, resps).gets
                 ELSE last_page_gets
            /\ token_page' = IF fetch /\ resps.tempahan_addcal # NoToken
                             THEN <<[at |-> now, left |-> FALSE]>>
                             ELSE token_page
            /\ IF TokenAbort(tok)
               THEN /\ Return(FALSE, NoName, "no_token")
                    /\ UNCHANGED <<start_time, check_count>>
               ELSE /\ start_time' = now
                    /\ check_count' = 0
                    /\ pc' = "poll"
                    /\ UNCHANGED <<result, outcome>>
    /\ config' = ConfigAfterSelection(
                     config,
                     At(facilities, SelectIndex(config.facility_index,
                                                facilities)).facility_id_encoded)
    /\ UNCHANGED <<logged_in, cached_facilities, poll_timeout, check_interval,
                   facilities, now,
                   venue_poll_start, venue_poll_count, elapsed, late,
                   original_num, original_tjk, error, hist>>

\* Step 4: the timeout test and one availability check
PollCheck ==
    /\ UNCHANGED <<login_hist, page_hist, others>>
    /\ pc = "poll"
    /\ \E lt \in BOOLEAN :
         /\ elapsed' = now - start_time
         /\ late' = lt
         /\ IF TimedOut(now - start_time, lt, poll_timeout)
            THEN /\ Return(FALSE, NoName, "timeout")
                 /\ UNCHANGED <<n_checks, n_unavail, retried, error>>
            ELSE \E resp \in CheckResponses :
                   /\ n_checks' = n_checks + 1
                   /\ retried' = FALSE
                   /\ IF CheckSlot(resp).available
                      THEN /\ pc' = IF TimesRaise(config) THEN "raised"
                                    ELSE "available"
                           /\ error' = IF TimesRaise(config) THEN "ValueError"
                                       ELSE error
                           /\ UNCHANGED n_unavail
                      ELSE /\ pc' = "sleep"
                           /\ n_unavail' = n_unavail + 1
                           /\ UNCHANGED error
                   /\ UNCHANGED <<result, outcome>>
    /\ UNCHANGED <<ctrl, args, facilities, fresh_facility_id, now, start_time,
                   venue_poll_start, venue_poll_count, check_count,
                   original_num, original_tjk, run_no, config0,
                   before_swap, n_sleeps, n_primary, n_fallback, n_ok,
                   n_confirms, n_notify, notify_failed, last_submit,
                   last_confirm>>

\* What follows a booking classified successful: the confirmation when a
\* booking id was found, the notifications, and the return.  notify_ok and
\* notify_bad say whether a notification follows a confirmed / an
\* unconfirmed booking; notify_skip whether one follows a skipped confirmation.
AfterBooking(sub, cfg, name, why, notify_ok, notify_bad, notify_skip) ==
    \E confirm_ok \in BOOLEAN, telegram_fails \in BOOLEAN :
      LET confirming == ShouldConfirm(sub.booking_id)
          notifying == IF confirming
                       THEN (IF confirm_ok THEN notify_ok ELSE notify_bad)
                       ELSE notify_skip
      IN /\ IF confirming
            THEN /\ n_confirms' = n_confirms + 1
                 /\ last_confirm' = [idp |-> IF sub.booking_id = <<>> THEN <<>>
                                             ELSE sub.booking_id[1],
                                     tot |-> ConfirmTotal(cfg),
                                     success |-> confirm_ok]
            ELSE UNCHANGED <<n_confirms, last_confirm>>
         /\ n_notify' = IF notifying THEN n_notify + 1 ELSE n_notify
         /\ notify_failed' = (notifying /\ telegram_fails)
         /\ IF notifying /\ telegram_fails /\ ~TelegramSwallowed
            THEN /\ pc' = "raised"
                 /\ error' = "TelegramError"
                 /\ UNCHANGED <<result, outcome>>
            ELSE /\ Return(TRUE, name, why)
                 /\ UNCHANGED error

\* a message sent for a confirmed primary booking too
Mut_PrimaryNotifiesSuccess ==
    [confirmed |-> TRUE, failed |-> TRUE, skipped |-> FALSE]

\* run, step 6: send_telegram is called for a primary booking only in the
\* branch of the failed confirmation
PrimaryNotifies == [confirmed |-> FALSE, failed |-> TRUE, skipped |-> FALSE]

\* Step 5: the token refresh, the booking of the primary facility and, on
\* success, step 6
BookPrimary ==
    /\ UNCHANGED <<login_hist, others>>
    /\ pc = "available"
    /\ \E resps \in (IF NeedsRefresh(elapsed, late) THEN PageResponses
                      ELSE {NoPages}),
          resp \in BookResponses :
         LET refresh == NeedsRefresh(elapsed, late)
             tok == IF refresh THEN GetCalendarPage(ks_token, resps).ks_token
                    ELSE ks_token
             sub == BookSlot("primary", config, tok, resp)
         IN /\ ks_token' = tok
            /\ n_pages' = IF refresh THEN n_pages + 1 ELSE n_pages
            /\ n_page_gets' =
                 IF refresh
                 THEN n_page_gets + Len(GetCalendarPage(ks_token, resps).gets)
                 ELSE n_page_gets
            /\ last_page_gets' =
                 IF refresh THEN GetCalendarPage(ks_token, resps).gets
                 ELSE last_page_gets
            /\ token_page' =
                 IF refresh
                 THEN (IF resps.tempahan_addcal # NoToken
                       THEN <<[at |-> now, left |-> FALSE]>>
                       ELSE LeftPage(token_page))
                 ELSE token_page
            /\ n_primary' = n_primary + 1
            /\ last_submit' = sub
            /\ n_ok' = IF sub.success THEN n_ok + 1 ELSE n_ok
            /\ IF AfterPrimary(sub.success, config) = "return"
               THEN AfterBooking(sub, config, PrimaryName(config), "booked",
                                 PrimaryNotifies.confirmed,
                                 PrimaryNotifies.failed,
                                 PrimaryNotifies.skipped)
               ELSE /\ pc' = AfterPrimary(sub.success, config)
                    /\ UNCHANGED <<result, outcome, error, n_confirms,
                                   last_confirm, n_notify, notify_failed>>
    /\ UNCHANGED <<logged_in, cached_facilities, args, facilities,
                   fresh_facility_id, now, start_time, venue_poll_start,
                   venue_poll_count, elapsed, late, check_count, original_num,
                   original_tjk, run_no, config0, before_swap, retried,
                   n_checks, n_unavail, n_sleeps, n_fallback>>

\* The fallback: the list is fetched again, config is switched to the
\* fallback facility, and the booking is submitted once more after a delay
RetryFallback ==
    /\ UNCHANGED <<login_hist, n_pages, n_page_gets, last_page_gets, others>>
    /\ pc = "retry"
    /\ token_page' = LeftPage(token_page)
    /\ \E n \in 0..MaxFacilities, resp \in BookResponses :
         LET list == FacilityList(n)
             retry_index == config.retry_facility_index[1]
         IN /\ facilities' = list
            /\ IF ~RetryIndexValid(retry_index, list)
               THEN /\ pc' = "sleep"
                    /\ UNCHANGED <<config, original_num, original_tjk, now,
                                   n_fallback, last_submit, n_ok, n_confirms,
                                   last_confirm, n_notify, notify_failed,
                                   result, outcome, error, before_swap,
                                   retried>>
               ELSE
                 LET swapped == SwapToFallback(config, At(list, retry_index))
                     sub == BookSlot("fallback", swapped, ks_token, resp)
                 IN /\ before_swap' = Snapshot(config)
                    /\ original_num' = config.facility_id
                    /\ original_tjk' = config.tjk_id
                    /\ now' = now + RETRY_DELAY
                    /\ n_fallback' = n_fallback + 1
                    /\ last_submit' = sub
                    /\ n_ok' = IF sub.success THEN n_ok + 1 ELSE n_ok
                    /\ IF sub.success
                       THEN /\ config' = swapped
                            /\ AfterBooking(sub, swapped,
                                            RetryName(config, retry_index),
                                            "booked_retry", TRUE, TRUE, TRUE)
                            /\ UNCHANGED retried
                       ELSE /\ retried' = TRUE
                            /\ UNCHANGED <<n_confirms, last_confirm, n_notify,
                                           notify_failed, result, outcome>>
                            /\ IF RevertRaises(swapped, list)
                               THEN /\ config' = swapped
                                    /\ pc' = "raised"
                                    /\ error' = "IndexError"
                               ELSE /\ config' = RevertToPrimary(
                                          swapped, list, config.facility_id,
                                          config.tjk_id)
                                    /\ pc' = AfterFallback
                                    /\ UNCHANGED error
    /\ UNCHANGED <<ctrl, poll_timeout, check_interval, fresh_facility_id,
                   start_time, venue_poll_start, venue_poll_count, elapsed,
                   late, check_count, run_no, config0, n_checks, n_unavail,
                   n_sleeps, n_primary>>

\* the poll iteration ending without its sleep
Mut_PollNoSleep ==
    /\ UNCHANGED <<login_hist, page_hist, others>>
    /\ pc = "sleep"
    /\ pc' = "poll"
    /\ UNCHANGED <<ctrl, args, facilities, fresh_facility_id, now, start_time,
                   venue_poll_start, venue_poll_count, elapsed, late,
                   check_count, original_num, original_tjk, result, outcome,
                   error, hist>>

\* The end of a poll iteration: time.sleep(check_interval)
PollSleep ==
    /\ UNCHANGED <<login_hist, page_hist, others>>
    /\ pc = "sleep"
    /\ now' = now + check_interval
    /\ n_sleeps' = n_sleeps + 1
    /\ pc' = "poll"
    /\ UNCHANGED <<ctrl, args, facilities, fresh_facility_id, start_time,
                   venue_poll_start, venue_poll_count, elapsed, late,
                   check_count, original_num, original_tjk, result, outcome,
                   error, run_no, config0, before_swap, retried, n_checks,
                   n_unavail, n_primary, n_fallback, n_ok, n_confirms,
                   n_notify, notify_failed, last_submit, last_confirm>>

\* main, book-week mode: the next call of run on the same controller; the
\* clock of the new run starts at 0, fetched is the time on it of the fetch
\* that set the token held
NewRun(cfg, fetched) ==
    /\ run_no' = run_no + 1
    /\ config' = cfg
    /\ config0' = cfg
    /\ pc' = "login"
    /\ facilities' = <<>>
    /\ fresh_facility_id' = "unset"
    /\ now' = 0
    /\ start_time' = 0
    /\ venue_poll_start' = 0
    /\ venue_poll_count' = 0
    /\ elapsed' = 0
    /\ late' = FALSE
    /\ check_count' = 0
    /\ original_num' = 0
    /\ original_tjk' = 0
    /\ result' = NoResult
    /\ outcome' = "none"
    /\ before_swap' = NoSnapshot
    /\ retried' = FALSE
    /\ n_checks' = 0
    /\ n_unavail' = 0
    /\ n_sleeps' = 0
    /\ n_primary' = 0
    /\ n_fallback' = 0
    /\ n_ok' = 0
    /\ n_confirms' = 0
    /\ n_notify' = 0
    /\ notify_failed' = FALSE
    /\ last_submit' = NoSubmit
    /\ last_confirm' = NoConfirm
    /\ was_logged_in' = logged_in
    /\ n_login_get' = 0
    /\ n_login_post' = 0
    /\ n_pages' = 0
    /\ n_page_gets' = 0
    /\ last_page_gets' = <<>>
    /\ token_page' = fetched
    /\ UNCHANGED <<ctrl, poll_timeout, check_interval, error>>

\* main, book-week mode: the next run, with a config built afresh from the
\* same arguments; the fetch of a token held from an earlier run is not
\* followed
StartRun ==
    /\ pc = "done"
    /\ run_no < MaxRuns
    /\ NewRun(config0, <<>>)
    /\ UNCHANGED others

Next ==
    \/ Step1Login
    \/ Step2Facilities
    \/ VenuePoll
    \/ Step3Token
    \/ PollCheck
    \/ BookPrimary
    \/ RetryFallback
    \/ PollSleep
    \/ StartRun

Spec == Init /\ [][Next]_vars

\* ------------------------------------- main: targets and configuration
\* get_booking_target: None (<<>>) when clock_day + 8 weeks is a weekend
BookingTarget(day) ==
    IF WeekdayOf(FutureDate(day)) > 4 THEN <<>>
    ELSE << [ target_date |-> FutureDate(day),
              time_start |-> WeeklySlot(WeekdayOf(FutureDate(day)))[1],
              time_end |-> WeeklySlot(WeekdayOf(FutureDate(day)))[2] ] >>

\* main: the mode the arguments select
Mode(a) ==
    IF a.day_offset # <<>> THEN "day"
    ELSE IF a.book_week THEN "week" ELSE "single"

\* main, single-day mode: config = {...}
BuildConfigDay(a, date, time_start, time_end) ==
    [ venue_id |-> a.venue_id, facility_id_encoded |-> a.facility_id,
      facility_id |-> a.facility_id_num, facility_index |-> a.facility_index,
      tjk_id |-> a.tjk_id, retry_facility_index |-> a.retry_facility_index,
      retry_facility_id |-> a.retry_facility_id,
      retry_facility_id_num |-> a.retry_facility_id_num,
      retry_tjk_id |-> a.retry_tjk_id, venue_id_num |-> a.venue_id_num,
      date |-> date, time_start |-> time_start, time_end |-> time_end,
      neg |-> a.neg, num_users |-> a.num_users, purpose |-> a.purpose ]

\* the number of the retry facility taken for the primary one
Mut_BuildConfigRetryNum(a, date, time_start, time_end) ==
    [ venue_id |-> a.venue_id, facility_id_encoded |-> a.facility_id,
      facility_id |-> a.retry_facility_id_num, facility_index |-> a.facility_index,
      tjk_id |-> a.tjk_id, retry_facility_index |-> a.retry_facility_index,
      retry_facility_id |-> a.retry_facility_id,
      retry_facility_id_num |-> a.retry_facility_id_num,
      retry_tjk_id |-> a.retry_tjk_id, venue_id_num |-> a.venue_id_num,
      date |-> date, time_start |-> time_start, time_end |-> time_end,
      neg |-> a.neg, num_users |-> a.num_users, purpose |-> a.purpose ]

\* main, book-week mode: config = {...}
BuildConfigWeek(a, date, time_start, time_end) ==
    [ venue_id |-> a.venue_id, facility_id_encoded |-> a.facility_id,
      facility_id |-> a.facility_id_num, facility_index |-> a.facility_index,
      tjk_id |-> a.tjk_id, retry_facility_index |-> a.retry_facility_index,
      retry_facility_id |-> a.retry_facility_id,
      retry_facility_id_num |-> a.retry_facility_id_num,
      retry_tjk_id |-> a.retry_tjk_id, venue_id_num |-> a.venue_id_num,
      date |-> date, time_start |-> time_start, time_end |-> time_end,
      neg |-> a.neg, num_users |-> a.num_users, purpose |-> a.purpose ]

\* main, single-run mode: the date and the times not given are taken from
\* get_booking_target()
AutoFill(a, target) ==
    [ a EXCEPT !.date = IF a.date = NoDate THEN target.target_date ELSE a.date,
               !.time_start = IF a.time_start = "" THEN target.time_start
                              ELSE a.time_start,
               !.time_end = IF a.time_end = "" THEN target.time_end
                            ELSE a.time_end ]

\* main, single-run mode: config = {...}, with args.date, args.time_start and
\* args.time_end
BuildConfigSingle(a) ==
    [ venue_id |-> a.venue_id, facility_id_encoded |-> a.facility_id,
      facility_id |-> a.facility_id_num, facility_index |-> a.facility_index,
      tjk_id |-> a.tjk_id, retry_facility_index |-> a.retry_facility_index,
      retry_facility_id |-> a.retry_facility_id,
      retry_facility_id_num |-> a.retry_facility_id_num,
      retry_tjk_id |-> a.retry_tjk_id, venue_id_num |-> a.venue_id_num,
      date |-> a.date, time_start |-> a.time_start, time_end |-> a.time_end,
      neg |-> a.neg, num_users |-> a.num_users, purpose |-> a.purpose ]

\* main, book-week mode: slot_timeout = min(args.poll_timeout // 5, 600)
WEEK_SLOT_CAP == 600
SlotTimeout(timeout) ==
    IF timeout \div 5 < WEEK_SLOT_CAP THEN timeout \div 5 ELSE WEEK_SLOT_CAP

\* ----------------------------------- the functions applied on their own
TimeStrings == {c[1] : c \in Clocks} \cup {"7pm", "", "19:00", "24:00:00"}
DayOffsets == (-2)..6
Todays == 0..6

PureUnchanged ==
    UNCHANGED <<ctrl, args, locals, hist, login_hist, page_hist, main_vars,
                day_vars>>

\* check_slot answered with a body
CallCheckSlot ==
    /\ \E body \in Bodies :
         /\ call' = [NoCall EXCEPT !.fn = "check_slot", !.body = body]
         /\ ret' = [NoRet EXCEPT !.available = CheckSlot(body).available]
    /\ PureUnchanged

\* <<time_start, time_end, response>>: every pair of times with one response,
\* and every response with the times of the default config
BookCalls ==
    {<<ts, te, [success |-> FALSE, idps |-> {}]>> :
       ts \in TimeStrings, te \in TimeStrings}
      \cup {<<"19:00:00", "21:00:00", resp>> : resp \in AllBookResponses}

\* book_slot: the price computation, the form fields it fills, and what it
\* returns for the response
CallBookSlot ==
    /\ \E c \in BookCalls :
         LET ts == c[1]
             te == c[2]
             resp == c[3]
             cfg == [config EXCEPT !.time_start = ts, !.time_end = te]
             form == BookSlot("primary", cfg, "tokA", resp)
         IN /\ call' = [NoCall EXCEPT !.fn = "book_slot", !.time_start = ts,
                                       !.time_end = te,
                                       !.success = resp.success,
                                       !.idps = resp.idps]
            /\ ret' = [NoRet EXCEPT !.hours = SlotHours(cfg),
                                    !.rate = SlotRate(cfg),
                                    !.tt_jumlah_jam = form.tt_jumlah_jam,
                                    !.tt_jumlah = form.tt_jumlah,
                                    !.success = form.success,
                                    !.booking_id = form.booking_id]
    /\ PureUnchanged

\* get_single_day_target(day_offset)
CallSingleDay ==
    /\ \E d \in DayOffsets, today \in Todays :
         /\ call' = [NoCall EXCEPT !.fn = "get_single_day_target",
                                   !.day_offset = d, !.today = today]
         /\ ret' = IF SingleDayRaises(d)
                   THEN [NoRet EXCEPT !.raised = "ValueError"]
                   ELSE [NoRet EXCEPT !.targets = <<SingleDayTarget(d, today)>>]
    /\ PureUnchanged

\* get_weekly_booking_targets()
CallWeekly ==
    /\ \E today \in Todays :
         /\ call' = [NoCall EXCEPT !.fn = "get_weekly_booking_targets",
                                   !.today = today]
         /\ ret' = [NoRet EXCEPT !.targets = WeeklyTargets(today)]
    /\ PureUnchanged

\* login() answered with a login page and a post-login response
CallLogin ==
    /\ \E page \in LoginPages, resp \in LoginResponses :
         /\ call' = [NoCall EXCEPT !.fn = "login", !.page = page,
                                   !.resp = IF TokensFound(page) THEN resp
                                            ELSE NoCall.resp]
         /\ ret' = [NoRet EXCEPT !.posts = Login(page, resp).posts,
                                 !.returned = Login(page, resp).returned]
    /\ PureUnchanged

\* arguments that differ from the defaults in every field copied to config
OtherCli ==
    [ CliDefaults EXCEPT !.venue_id = "venueOther", !.facility_id = "encOther",
                         !.facility_id_num = 115, !.tjk_id = 700,
                         !.retry_facility_index = <<0>>,
                         !.retry_facility_id = "encRetryOther",
                         !.retry_facility_id_num = 203, !.retry_tjk_id = 701,
                         !.venue_id_num = 3, !.neg = "10",
                         !.facility_index = 1, !.num_users = "2",
                         !.purpose = "5" ]

\* the config dict main builds in each mode, for a date and two times
CallBuildConfig ==
    /\ \E a \in {CliDefaults, OtherCli}, mode \in {"single", "day", "week"},
          slot \in {<<3, "08:00:00", "10:00:00">>, <<60, "20:00:00", "22:00:00">>} :
         /\ call' = [NoCall EXCEPT !.fn = "build_config", !.mode = mode,
                                   !.cli = <<a>>, !.date = slot[1],
                                   !.time_start = slot[2],
                                   !.time_end = slot[3]]
         /\ ret' = [NoRet EXCEPT !.config =
                      << CASE mode = "day" ->
                                BuildConfigDay(a, slot[1], slot[2], slot[3])
                           [] mode = "week" ->
                                BuildConfigWeek(a, slot[1], slot[2], slot[3])
                           [] OTHER ->
                                BuildConfigSingle(
                                  [a EXCEPT !.date = slot[1],
                                            !.time_start = slot[2],
                                            !.time_end = slot[3]]) >>]
    /\ PureUnchanged

\* the config main builds from the defaults of its arguments
DefaultConfig ==
    [ facility_id_encoded |-> CliEncoded,
      facility_id |-> FACILITY_ID_NUM, tjk_id |-> TJK_ID,
      facility_index |-> 0, retry_facility_index |-> <<1>>,
      retry_facility_id_num |-> RETRY_FACILITY_ID_NUM,
      retry_tjk_id |-> RETRY_TJK_ID,
      time_start |-> "19:00:00", time_end |-> "21:00:00" ]

InitPure == InitWith({DefaultConfig}, {<<3600, 1>>}) /\ NoMain /\ NoDays

NextPure ==
    \/ CallCheckSlot
    \/ CallBookSlot
    \/ CallSingleDay
    \/ CallWeekly
    \/ CallLogin
    \/ CallBuildConfig

SpecPure == InitPure /\ [][NextPure]_vars

\* ------------------ steps 1 to 3 of run, the venue polled to its timeout
\* <<poll_timeout, check_interval>>, around the polling interval and the cap
VenueParams ==
    { <<0, 1>>, <<1, 1>>, <<3, 1>>, <<4, 1>>, <<2999, 1>>, <<3000, 1>>,
      <<3001, 1>>, <<3600, 1>> }

VenuePollToCap == VenuePollUpTo(MaxVenuePollsToCap)

InitVenue == InitWith({DefaultConfig}, VenueParams) /\ NoMain /\ NoDays

NextVenue ==
    \/ Step1Login
    \/ Step2Facilities
    \/ VenuePollToCap
    \/ Step3Token
    \/ StartRun

SpecVenue == InitVenue /\ [][NextVenue]_vars

\* ------------------------------------------------------------- main
\* the arguments main is run with: p is <<--poll-timeout, --check-interval>>,
\* slot is <<--date, --time-start, --time-end>>; the long polls in book-week
\* mode only, a date of its own in single-run mode only
CliRuns ==
    { a \in { [ CliDefaults EXCEPT !.book_week = w, !.day_offset = d,
                                   !.facility_index = i,
                                   !.poll_timeout = p[1],
                                   !.check_interval = p[2],
                                   !.date = slot[1], !.time_start = slot[2],
                                   !.time_end = slot[3] ] :
                w \in BOOLEAN, d \in {<<>>, <<0>>, <<4>>, <<5>>},
                i \in {0, 2}, p \in {<<5, 2>>, <<3600, 500>>},
                slot \in { <<NoDate, "", "">>, <<3, "", "">>,
                           <<3, "08:00:00", "10:00:00">> } } :
        /\ (a.poll_timeout > 5 => Mode(a) = "week")
        /\ (a.date # NoDate => Mode(a) = "single") }

\* main enters run: booker.run(config, poll_timeout=..., check_interval=...)
CallRun(cfg, timeout, interval) ==
    /\ config' = cfg
    /\ config0' = cfg
    /\ poll_timeout' = timeout
    /\ check_interval' = interval
    /\ main_pc' = "running"
    /\ UNCHANGED <<ctrl, locals, login_hist, page_hist, pure, cli, clock_day,
                   results, exit_code, run_no, before_swap, retried, n_checks,
                   n_unavail, n_sleeps, n_primary, n_fallback, n_ok,
                   n_confirms, n_notify, notify_failed, last_submit,
                   last_confirm>>

\* the process ends: main returns code, or an exception leaves it
Exit(code) ==
    /\ main_pc' = "exited"
    /\ exit_code' = <<code>>

\* main up to its first call of run
MainStart ==
    /\ main_pc = "start"
    /\ UNCHANGED day_vars
    /\ CASE Mode(cli) = "day" ->
              IF SingleDayRaises(cli.day_offset[1])
              THEN /\ Exit(1)
                   /\ error' = "ValueError"
                   /\ UNCHANGED <<ctrl, args, pc, facilities,
                                  fresh_facility_id, now, start_time,
                                  venue_poll_start, venue_poll_count, elapsed,
                                  late, check_count, original_num,
                                  original_tjk, result, outcome, hist,
                                  login_hist, page_hist, pure, cli, clock_day,
                                  results>>
              ELSE LET target == SingleDayTarget(cli.day_offset[1], clock_day)
                   IN CallRun(BuildConfigDay(cli, target.target_date,
                                             target.time_start,
                                             target.time_end),
                              cli.poll_timeout, cli.check_interval)
         [] Mode(cli) = "week" ->
              LET target == WeeklyTargets(clock_day)[1]
              IN CallRun(BuildConfigWeek(cli, target.target_date,
                                         target.time_start, target.time_end),
                         SlotTimeout(cli.poll_timeout), cli.check_interval)
         [] OTHER ->
              LET auto == \/ cli.date = NoDate
                          \/ cli.time_start = ""
                          \/ cli.time_end = ""
              IN IF auto /\ BookingTarget(clock_day) = <<>>
                 THEN /\ Exit(1)
                      /\ UNCHANGED <<ctrl, args, locals, hist, login_hist,
                                     page_hist, pure, cli, clock_day, results>>
                 ELSE LET a == IF auto
                               THEN AutoFill(cli, BookingTarget(clock_day)[1])
                               ELSE cli
                      IN CallRun(BuildConfigSingle(a), cli.poll_timeout,
                                 cli.check_interval)

\* a step of the run main is waiting for
MainRun ==
    /\ main_pc = "running"
    /\ \/ Step1Login
       \/ Step2Facilities
       \/ VenuePoll
       \/ Step3Token
       \/ PollCheck
       \/ BookPrimary
       \/ RetryFallback
       \/ PollSleep

\* the fetch of the token on the clock of the next run, which starts at 0
\* when the run that ends at the time ended returns
CarriedFetch(page, ended) ==
    IF page = <<>> THEN <<>> ELSE <<[page[1] EXCEPT !.at = @ - ended]>>

\* main after run has returned: the result is kept; book-week mode goes on
\* to the next day until the five targets are done and returns 0 when any
\* day was booked; the other modes return 0 when the run succeeded
MainAfterRun ==
    /\ main_pc = "running"
    /\ pc = "done"
    /\ UNCHANGED day_vars
    /\ LET done == Append(results, result.success)
       IN /\ results' = done
          /\ UNCHANGED <<cli, clock_day, pure>>
          /\ IF Mode(cli) = "week" /\ Len(done) < Len(WeeklyTargets(clock_day))
             THEN LET target == WeeklyTargets(clock_day)[Len(done) + 1]
                  IN /\ NewRun(BuildConfigWeek(cli, target.target_date,
                                               target.time_start,
                                               target.time_end),
                               CarriedFetch(token_page, now))
                     /\ UNCHANGED <<main_pc, exit_code>>
             ELSE /\ Exit(IF \E i \in 1..Len(done) : done[i] THEN 0 ELSE 1)
                  /\ UNCHANGED <<ctrl, args, locals, hist, login_hist,
                                 page_hist>>

\* an exception raised in run leaves main: traceback, exit status 1
MainRaised ==
    /\ main_pc = "running"
    /\ pc = "raised"
    /\ UNCHANGED day_vars
    /\ Exit(1)
    /\ UNCHANGED <<ctrl, args, locals, hist, login_hist, page_hist, pure,
                   cli, clock_day, results>>

InitMain ==
    /\ InitWith({DefaultConfig}, {<<0, 1>>})
    /\ cli \in CliRuns
    /\ clock_day \in {0, 5}
    /\ main_pc = "start"
    /\ results = <<>>
    /\ exit_code = <<>>
    /\ NoDays

NextMain ==
    \/ MainStart
    \/ MainRun
    \/ MainAfterRun
    \/ MainRaised

SpecMain == InitMain /\ [][NextMain]_vars

\* ------------------- single-day processes side by side, and the summary
\* every process writing one and the same file
Mut_OneResultFile(day_offset) == 0

\* main, single-day mode: filename = f"booking_result_{args.day_offset}.json",
\* the files named by their number
ResultFile(day_offset) == day_offset

DaysUnchanged ==
    UNCHANGED <<ctrl, args, locals, hist, login_hist, page_hist, pure,
                main_vars>>

\* a single-day process up to the return of its run: get_single_day_target
\* raises for an offset out of range; run returns a result, successful or
\* not, or raises
DayRun(o) ==
    /\ day_procs[o].pc = "start"
    /\ \E out \in (IF SingleDayRaises(o) THEN {"raised"}
                   ELSE {"success", "failure", "raised"}) :
         day_procs' = [day_procs EXCEPT ![o] =
                         [pc |-> IF out = "raised" THEN "exited" ELSE "returned",
                          outcome |-> out]]
    /\ UNCHANGED <<result_files, summary>>
    /\ DaysUnchanged

\* open(filename, "w"): the file is created, or emptied
DayOpen(o) ==
    /\ day_procs[o].pc = "returned"
    /\ day_procs' = [day_procs EXCEPT ![o].pc = "opened"]
    /\ result_files' = [result_files EXCEPT ![ResultFile(o)] =
                                             [exists |-> TRUE, json |-> <<>>]]
    /\ UNCHANGED summary
    /\ DaysUnchanged

\* json.dump(result_data, f), and return 0 if success else 1
DayDump(o) ==
    /\ day_procs[o].pc = "opened"
    /\ day_procs' = [day_procs EXCEPT ![o].pc = "exited"]
    /\ result_files' =
         [result_files EXCEPT ![ResultFile(o)].json =
            << [ day_name |-> SingleDayTarget(o, clock_day).day_name,
                 success |-> day_procs[o].outcome = "success",
                 day_offset |-> o ] >>]
    /\ UNCHANGED summary
    /\ DaysUnchanged

\* main, summary-report mode, run once every process started has exited: the
\* files found are read, those that do not parse are skipped, and each
\* weekday gets the result that names it, or a placeholder marked missing
SummaryReport ==
    /\ summary = <<>>
    /\ \A o \in DayProcesses : day_procs[o].pc \in {"unused", "exited"}
    /\ LET files == {f \in DOMAIN result_files : result_files[f].exists}
           read == {result_files[f].json[1] :
                      f \in {g \in files : result_files[g].json # <<>>}}
           placeholder(i) == [day_name |-> DayNames[i + 1], success |-> FALSE,
                              missing |-> TRUE]
           found(i) == {r \in read : r.day_offset = i}
       IN summary' =
            << [ success_count |-> Cardinality({r \in read : r.success}),
                 final_results |->
                   [i \in 0..4 |->
                      IF found(i) = {} THEN placeholder(i)
                      ELSE LET r == CHOOSE x \in found(i) : TRUE
                           IN [day_name |-> r.day_name, success |-> r.success,
                               missing |-> FALSE]] ] >>
    /\ UNCHANGED <<day_procs, result_files>>
    /\ DaysUnchanged

\* any of the processes started, in any order
InitDays ==
    /\ InitWith({DefaultConfig}, {<<0, 1>>})
    /\ NoMain
    /\ day_procs \in [DayProcesses -> {NoProcess, [NoProcess EXCEPT !.pc = "start"]}]
    /\ result_files = [o \in DayProcesses |-> NoFile]
    /\ summary = <<>>

NextDays ==
    \/ \E o \in DayProcesses : DayRun(o)
    \/ \E o \in DayProcesses : DayOpen(o)
    \/ \E o \in DayProcesses : DayDump(o)
    \/ SummaryReport

SpecDays == InitDays /\ [][NextDays]_vars

\* ------ the target functions on every weekday, and main up to its first run
\* get_booking_target()
CallBookingTarget ==
    /\ \E today \in Todays :
         /\ call' = [NoCall EXCEPT !.fn = "get_booking_target",
                                   !.today = today]
         /\ ret' = [NoRet EXCEPT !.targets = BookingTarget(today)]
    /\ PureUnchanged

\* main started on each day of a week, in each mode
InitTargets ==
    /\ InitWith({DefaultConfig}, {<<0, 1>>})
    /\ cli \in {a \in CliRuns : a.poll_timeout = 5 /\ a.facility_index = 0}
    /\ clock_day \in Todays
    /\ main_pc = "start"
    /\ results = <<>>
    /\ exit_code = <<>>
    /\ NoDays

NextTargets ==
    \/ CallSingleDay
    \/ CallWeekly
    \/ CallBookingTarget
    \/ MainStart

SpecTargets == InitTargets /\ [][NextTargets]_vars

\* --------------------------- run called with a config that names its price
\* configs with a "total_price" of None, "30" or "99", for a day slot, a
\* slot from day into night and two night slots
InitPrice ==
    /\ InitWith({ [ facility_id_encoded |-> CliEncoded,
                    facility_id |-> FACILITY_ID_NUM, tjk_id |-> TJK_ID,
                    facility_index |-> 0, retry_facility_index |-> <<1>>,
                    retry_facility_id_num |-> RETRY_FACILITY_ID_NUM,
                    retry_tjk_id |-> RETRY_TJK_ID,
                    time_start |-> slot[1], time_end |-> slot[2],
                    total_price |-> price ] :
                    slot \in { <<"08:00:00", "10:00:00">>,
                               <<"18:00:00", "20:00:00">>,
                               <<"19:00:00", "21:00:00">>,
                               <<"20:00:00", "22:00:00">> },
                    price \in {<<>>, <<30>>, <<99>>} },
                {<<1, 2>>})
    /\ NoMain
    /\ NoDays

SpecPrice == InitPrice /\ [][Next]_vars

\* ------------------------------------------------------------ claims
Ready == logged_in /\ cached_facilities # <<>> /\ ks_token # NoToken
Submitted == last_submit.kind # "none"
Polling == pc \in {"poll", "available", "retry", "sleep"}
Failed == [success |-> FALSE, court_name |-> NoName]
RetryIndex == config.retry_facility_index[1]

\* C1: a booking submission (primary or fallback) is sent only after a
\* successful login, with a non-empty facility list resolved and with a
\* session token held; the ks_token field of every submitted form is set,
\* and the fallback form is sent only with a non-empty re-fetched list.
C1_SubmitOnlyWhenReady ==
    /\ (pc \in {"available", "retry"} \/ Submitted) => Ready
    /\ Submitted => last_submit.ks_token # NoToken
    /\ (last_submit.kind = "fallback" => facilities # <<>>)

C1_Witness ==
    /\ run_no = 2
    /\ last_submit.kind = "fallback"
    /\ last_submit.ks_token = "tokA"
    /\ elapsed > STALE_AFTER

\* C2: availability checks and check_interval sleeps alternate strictly, a
\* primary submission is sent for each check that reported available and
\* for no other, and no fallback precedes the first primary submission; so
\* after N unavailable checks and one available check the first submission
\* is sent with exactly N + 1 checks and N sleeps behind it.
C2_PollThenSubmit ==
    /\ n_checks = n_unavail + n_primary
                     + (IF pc = "available" \/ error = "ValueError" THEN 1 ELSE 0)
    /\ (pc = "poll" => n_sleeps = n_checks)
    /\ (pc \in {"available", "retry", "sleep"} => n_sleeps + 1 = n_checks)
    /\ (n_primary = 0 => ~Submitted /\ n_fallback = 0)
    /\ (pc = "available" /\ n_primary = 0
          => n_checks = n_unavail + 1 /\ n_sleeps = n_unavail)
    /\ (n_primary = 1 /\ n_sleeps + 1 = n_checks /\ pc # "available"
          => n_checks = n_unavail + 1 /\ n_sleeps = n_unavail)

C2_Witness ==
    /\ n_unavail = 2
    /\ n_checks = 3
    /\ n_sleeps = 2
    /\ n_primary = 1
    /\ last_submit.kind = "primary"

\* C3: when the primary submission failed and the fallback submission is
\* classified successful, run returns success = True with the label of the
\* facility at retry_facility_index as court_name.
C3_FallbackLabel ==
    (last_submit.kind = "fallback" /\ last_submit.success)
      => /\ pc = "done"
         /\ result.success
         /\ result.court_name = (IF RetryIndex = 0 THEN "Gelanggang Tenis 1"
                                 ELSE "Gelanggang Tenis 2")

C3_Witness ==
    /\ pc = "done"
    /\ last_submit.kind = "fallback"
    /\ last_submit.success
    /\ config.facility_index = 0
    /\ RetryIndex = 1
    /\ result = [success |-> TRUE, court_name |-> "Gelanggang Tenis 2"]

\* C4: after a poll iteration in which the primary and the fallback
\* submission both failed, facility_id_encoded, facility_id and tjk_id of
\* config hold the values they had before the switch to the fallback.
C4_PrimaryRestored ==
    retried => Snapshot(config) = before_swap

\* C5: a failed submission is never the end of the run: run neither raises
\* nor returns, except from a later timeout test.
C5_FailureNeverAborts ==
    (Submitted /\ ~last_submit.success)
      => (Polling \/ (pc = "done" /\ outcome = "timeout"))

\* C6 as claimed: a run that times out has made at least one availability
\* check and returns no later than poll_timeout + check_interval after the
\* start of slot polling.
C6_TimeoutWithinOneInterval ==
    outcome = "timeout"
      => /\ n_checks >= 1
         /\ now - start_time <= poll_timeout + check_interval

\* C6 as amended: a run that times out returns an unsuccessful result; with
\* poll_timeout >= 1 it has made at least one availability check; it returns
\* no later than poll_timeout + check_interval + the 1-second retry delay
\* after the start of slot polling (sleep time, requests counted as
\* instantaneous), and no later than poll_timeout + check_interval unless
\* its last iteration ended with a failed fallback submission.
C6_TimeoutBound ==
    outcome = "timeout"
      => /\ pc = "done"
         /\ result = Failed
         /\ (poll_timeout >= 1 => n_checks >= 1)
         /\ now - start_time <= poll_timeout + check_interval + RETRY_DELAY
         /\ (~retried => now - start_time <= poll_timeout + check_interval)

C6_Witness ==
    /\ outcome = "timeout"
    /\ retried
    /\ poll_timeout < check_interval + RETRY_DELAY
    /\ now - start_time = poll_timeout + check_interval + RETRY_DELAY

\* C7: a failed login, an empty facility resolution and a missing token each
\* end the run with {success: False, court_name: None}, and such a run has
\* made no availability check, booking submission or confirmation request.
C7_EarlyFailuresAbort ==
    /\ (~logged_in /\ pc # "login" => outcome = "login_failed")
    /\ (cached_facilities = <<>> /\ pc \notin {"login", "facilities", "venue_poll"}
          => outcome \in {"login_failed", "no_facilities"})
    /\ (ks_token = NoToken
          /\ pc \notin {"login", "facilities", "venue_poll", "token"}
          => outcome \in {"login_failed", "no_facilities", "no_token"})
    /\ (outcome \in {"login_failed", "no_facilities", "no_token"}
          => /\ pc = "done"
             /\ result = Failed
             /\ n_checks = 0
             /\ n_primary = 0
             /\ n_fallback = 0
             /\ n_confirms = 0)

C7_Witness ==
    /\ outcome = "no_token"
    /\ venue_poll_count = 2
    /\ result = Failed
    /\ n_checks = 0

\* C8: a returned run reports success exactly when one of its submissions
\* was classified successful, whatever the confirmation and the
\* notification did, and a failing notification call never ends the run
\* with an error.
C8_SuccessIffSubmitted ==
    /\ (pc = "done" => (result.success <=> n_ok >= 1))
    /\ (n_ok >= 1 => pc = "done" /\ result.success)
    /\ (notify_failed => pc = "done" /\ error = "none")
    /\ error # "TelegramError"

C8_Witness ==
    /\ pc = "done"
    /\ result.success
    /\ n_confirms = 1
    /\ ~last_confirm.success
    /\ notify_failed

\* C9 as claimed: every submission classified successful is followed by
\* exactly one confirmation request, and there is no other confirmation.
C9_AlwaysConfirmed ==
    /\ n_confirms <= n_ok
    /\ (n_ok >= 1 => n_confirms = 1)

\* C9 as amended: a submission classified successful is followed by exactly
\* one confirmation request, for its booking id, when a booking id was found
\* in its response, and by none when no id was found; there is no
\* confirmation without a successful submission and none is repeated.
C9_ConfirmedWhenIdFound ==
    /\ n_confirms <= 1
    /\ n_confirms <= n_ok
    /\ (n_ok >= 1 => (n_confirms = 1 <=> last_submit.booking_id # <<>>))
    /\ (n_confirms = 1
          => last_submit.success /\ <<last_confirm.idp>> = last_submit.booking_id)

C9_Witness ==
    /\ pc = "done"
    /\ result.success
    /\ last_submit.kind = "fallback"
    /\ last_submit.booking_id = <<>>
    /\ n_confirms = 0

\* C10: at most one submission of a run is classified successful, and it is
\* the last request of the polling loop: the run returns with it, so no
\* check and no other submission follows it.
C10_AtMostOneBooking ==
    /\ n_ok <= 1
    /\ (n_ok = 1 => pc = "done" /\ last_submit.success /\ result.success)
    /\ (pc = "done" /\ result.success => n_ok = 1)

C10_Witness ==
    /\ n_ok = 1
    /\ n_primary = 2
    /\ n_fallback = 1
    /\ last_submit.kind = "primary"
    /\ pc = "done"

\* C11: a fallback submission is sent only with retry_facility_index set and
\* only directly after a failed primary submission of the same iteration,
\* and the idfasiliti and tjkid of its form are the fallback facility's
\* (retry_facility_id_num, retry_tjk_id), not the primary's.
C11_FallbackForm ==
    /\ (pc = "retry" \/ n_fallback > 0 => config0.retry_facility_index # <<>>)
    /\ (pc = "retry" => last_submit.kind = "primary" /\ ~last_submit.success)
    /\ n_fallback <= n_primary
    /\ (last_submit.kind = "fallback"
          => /\ last_submit.idfasiliti = config0.retry_facility_id_num
             /\ last_submit.tjkid = config0.retry_tjk_id
             /\ last_submit.idfasiliti # config0.facility_id
             /\ last_submit.tjkid # config0.tjk_id)

\* C12 as claimed: over a whole run the fallback submission is sent at most
\* once.
C12_FallbackAtMostOnce ==
    n_fallback <= 1

\* C12 as amended: the fallback is one-shot per failed primary submission:
\* every fallback submission follows a primary submission of its own, every
\* primary submission an availability check of its own, and within a run
\* the login requests, the confirmation and the successful submission are
\* not repeated; only the iterations of the two polling loops are.
C12_OneFallbackPerFailure ==
    /\ n_fallback + (IF pc = "retry" THEN 1 ELSE 0) <= n_primary
    /\ n_primary + (IF pc = "available" \/ error = "ValueError" THEN 1 ELSE 0)
         <= n_checks
    /\ n_login_get <= 1
    /\ n_login_post <= 1
    /\ n_confirms <= 1
    /\ n_ok <= 1

C12_Witness ==
    /\ n_fallback = 2
    /\ n_primary = 2
    /\ n_checks = 2
    /\ pc = "sleep"

\* C13: check_slot classifies a response as not available when its trimmed
\* lower-cased text is a 'taken' token such as "1" or contains "tiada", and
\* as available in every other case.
C13_TakenTokens ==
    call.fn = "check_slot"
      => LET text == Lower(Strip(call.body))
         IN ret.available <=> ~(text = <<"1">> \/ Contains(text, TIADA))

\* C14: for well-formed times with start <= end, book_slot computes
\* hours = floor((end - start) / 1 hour), rate = 10 for a start hour below
\* 19 and 15 from 19 on, total = hours * rate, and sends hours as
\* tt_jumlah_jam and total as tt_jumlah; 10:00-12:00 gives (2, 20, 10),
\* 19:00-21:00 (2, 30, 15), 18:00-19:00 (1, 10, 10), 08:00-12:00 total 40,
\* 21:00-22:00 (1, 15, 15).
C14_PriceRule ==
    (/\ call.fn = "book_slot"
     /\ Parses(call.time_start)
     /\ Parses(call.time_end)
     /\ SecondsOf[call.time_start] <= SecondsOf[call.time_end])
      => LET length == SecondsOf[call.time_end] - SecondsOf[call.time_start]
             hrt == <<ret.hours, ret.tt_jumlah, ret.rate>>
             slot == <<call.time_start, call.time_end>>
         IN /\ ret.hours * 3600 <= length
            /\ length < (ret.hours + 1) * 3600
            /\ ret.rate = (IF HourOf[call.time_start] < 19 THEN 10 ELSE 15)
            /\ ret.tt_jumlah = ret.hours * ret.rate
            /\ ret.tt_jumlah_jam = ret.hours
            /\ (slot = <<"10:00:00", "12:00:00">> => hrt = <<2, 20, 10>>)
            /\ (slot = <<"19:00:00", "21:00:00">> => hrt = <<2, 30, 15>>)
            /\ (slot = <<"18:00:00", "19:00:00">> => hrt = <<1, 10, 10>>)
            /\ (slot = <<"08:00:00", "12:00:00">> => ret.tt_jumlah = 40)
            /\ (slot = <<"21:00:00", "22:00:00">> => hrt = <<1, 15, 15>>)

C14_Witness ==
    /\ call.fn = "book_slot"
    /\ call.time_start = "18:59:59"
    /\ call.time_end = "21:00:00"
    /\ ret.tt_jumlah_jam = 2
    /\ ret.tt_jumlah = 20

\* C15: with a time_start or time_end that does not parse, the run that
\* detects availability goes on to book_slot and raises no error, and the
\* submitted form counts 1 hour.
C15_MalformedTimesTolerated ==
    TimesRaise(config0)
      => /\ pc # "raised"
         /\ error = "none"
         /\ (n_checks > n_unavail /\ pc # "available" => n_primary >= 1)
         /\ (Submitted => last_submit.tt_jumlah_jam = 1)

\* C16: get_single_day_target resolves offset 0 to Monday with the slot
\* 19:00:00-21:00:00, offset 4 to Friday with 20:00:00-22:00:00, and every
\* offset d of 0..4 to the d-th day name of Monday..Friday.
C16_DayOffsetSlots ==
    (call.fn = "get_single_day_target" /\ call.day_offset \in 0..4)
      => /\ ret.raised = "none"
         /\ Len(ret.targets) = 1
         /\ ret.targets[1].day_name
              = <<"Monday", "Tuesday", "Wednesday", "Thursday",
                  "Friday">>[call.day_offset + 1]
         /\ (call.day_offset = 0
               => /\ ret.targets[1].time_start = "19:00:00"
                  /\ ret.targets[1].time_end = "21:00:00")
         /\ (call.day_offset = 4
               => /\ ret.targets[1].time_start = "20:00:00"
                  /\ ret.targets[1].time_end = "22:00:00")

\* C17: an offset that is neither in 0..4 nor -1 is rejected with
\* ValueError and yields no target, and the offset -1 yields the five
\* targets Monday..Friday in that order.
C17_RangeErrorAndSentinel ==
    call.fn = "get_single_day_target"
      => /\ (call.day_offset \notin (-1)..4
               => ret.raised = "ValueError" /\ ret.targets = <<>>)
         /\ (call.day_offset = -1
               => /\ ret.raised = "none"
                  /\ Len(ret.targets) = 5
                  /\ \A i \in 1..5 :
                       ret.targets[i].day_name
                         = <<"Monday", "Tuesday", "Wednesday", "Thursday",
                             "Friday">>[i])

\* C18: a run started on a controller that is already logged in sends no
\* login-page fetch and no credential POST and leaves logged_in set;
\* logged_in is set only in a run that sent the credential POST, and every
\* run left without it has failed at the login.
C18_LoginOnce ==
    /\ (was_logged_in => logged_in /\ n_login_get = 0 /\ n_login_post = 0)
    /\ (logged_in /\ ~was_logged_in => n_login_get = 1 /\ n_login_post = 1)
    /\ (run_no = 1 => ~was_logged_in)
    /\ (~logged_in /\ pc # "login" => outcome = "login_failed")

C18_Witness ==
    /\ run_no = 2
    /\ was_logged_in
    /\ pc = "done"
    /\ result.success
    /\ n_login_get = 0
    /\ n_login_post = 0

\* C19: login returns True exactly when both hidden fields were found and
\* the post-login response shows a success indicator (home.php in the URL,
\* or logout, log keluar or selamat datang in the text); without both
\* fields it returns False and sends no credential POST.
C19_LoginResult ==
    call.fn = "login"
      => /\ ret.returned
              <=> /\ call.page.key
                  /\ call.page.value
                  /\ \/ call.resp.url_home
                     \/ call.resp.logout
                     \/ call.resp.log_keluar
                     \/ call.resp.selamat_datang
         /\ (~(call.page.key /\ call.page.value)
               => ~ret.returned /\ ret.posts = 0)
         /\ (call.page.key /\ call.page.value => ret.posts = 1)

C19_Witness ==
    /\ call.fn = "login"
    /\ ret.returned
    /\ ret.posts = 1
    /\ ~call.resp.url_home
    /\ ~call.resp.logout
    /\ ~call.resp.log_keluar
    /\ call.resp.selamat_datang

\* C20: while the facility list comes back empty the list is fetched again
\* 3 seconds after the previous fetch and the run does not go on to the
\* token; it goes on right after the first fetch that returns a facility;
\* with none it returns unsuccessful at the first fetch made
\* min(poll_timeout, 3000) seconds or more after the first one, less than
\* 3 seconds past that bound.
C20_VenuePolling ==
    LET bound == IF poll_timeout < 3000 THEN poll_timeout ELSE 3000
        waited == now - venue_poll_start
    IN /\ (pc = "venue_poll"
             => /\ cached_facilities = <<>>
                /\ waited = 3 * venue_poll_count
                /\ (venue_poll_count > 0 => waited - 3 < bound))
       /\ (pc \in {"token", "poll"}
             => facilities # <<>> /\ cached_facilities = facilities)
       /\ (pc = "token" /\ venue_poll_count > 0
             => waited = 3 * (venue_poll_count - 1))
       /\ (outcome = "no_facilities"
             => /\ pc = "done"
                /\ result = Failed
                /\ cached_facilities = <<>>
                /\ waited = 3 * (venue_poll_count - 1)
                /\ waited >= bound
                /\ waited < bound + 3)

C20_Witness ==
    /\ outcome = "no_facilities"
    /\ poll_timeout = 3600
    /\ venue_poll_count = 1001
    /\ now - venue_poll_start = 3000

\* C21: every call of get_calendar_page issues three GET requests, for
\* tempahan_home, tempahan_listfasiliti and tempahan_addcal in this order;
\* the token of the controller is never one found in the first or the second
\* response; when the third response holds none and none was held before,
\* ks_token stays unset and the run returns unsuccessful for want of a
\* token, and a run fails that way only then.
C21_CalendarPage ==
    /\ n_page_gets = 3 * n_pages
    /\ (n_pages > 0
          => last_page_gets = <<"tempahan_home", "tempahan_listfasiliti",
                                "tempahan_addcal">>)
    /\ ks_token \in Tokens \cup {NoToken}
    /\ (n_pages > 0 /\ ks_token = NoToken
          => pc = "done" /\ outcome = "no_token" /\ result = Failed)
    /\ (outcome = "no_token" => n_pages = 1 /\ ks_token = NoToken)

C21_Witness ==
    /\ outcome = "no_token"
    /\ n_pages = 1
    /\ n_page_gets = 3
    /\ last_page_gets[3] = "tempahan_addcal"
    /\ ks_token = NoToken

\* C22: the step that submits the primary booking of an iteration calls
\* get_calendar_page first exactly when more than 2400 seconds had elapsed,
\* at the top of that iteration, since slot polling started, and the
\* submission carries the token that call left; with 2400 seconds or less
\* elapsed it calls nothing and submits the token held.
C22_RefreshWhenStale ==
    [][ n_primary' = n_primary + 1
          => /\ IF elapsed > 2400 \/ (elapsed = 2400 /\ late)
                THEN n_pages' = n_pages + 1 /\ n_page_gets' = n_page_gets + 3
                ELSE /\ n_pages' = n_pages
                     /\ n_page_gets' = n_page_gets
                     /\ ks_token' = ks_token
             /\ last_submit'.ks_token = ks_token' ]_vars

C22_Witness ==
    /\ pc = "done"
    /\ outcome = "booked"
    /\ n_pages = 2
    /\ elapsed = 2400
    /\ late
    /\ last_submit.ks_token = "tokA"

\* C23: book_slot returns, for a response classified successful, the idp
\* that is numerically the largest among those of the modifyhandler2.php
\* links of the body ("10" rather than "9"), and None when the body holds no
\* such link; for a response classified unsuccessful it returns None whatever
\* links the body holds.
C23_BookingId ==
    call.fn = "book_slot"
      => /\ ret.success = call.success
         /\ (~call.success => ret.booking_id = <<>>)
         /\ (call.success /\ call.idps = {} => ret.booking_id = <<>>)
         /\ (call.success /\ call.idps # {}
               => /\ Len(ret.booking_id) = 1
                  /\ ret.booking_id[1] \in call.idps
                  /\ \A idp \in call.idps :
                       IntOf(idp) <= IntOf(ret.booking_id[1]))
         /\ (call.success /\ call.idps = {<<"9">>, <<"1", "0">>}
               => ret.booking_id = << <<"1", "0">> >>)

C23_Witness ==
    /\ call.fn = "book_slot"
    /\ call.success
    /\ call.idps = {<<"9">>, <<"1", "0">>}
    /\ ret.booking_id = << <<"1", "0">> >>

C25_NoErrorEscapes == error = "none" /\ pc # "raised"

\* C26: a process in single-run or single-day mode ends with exit code 0
\* when its run returned success and with 1 otherwise; a process in
\* book-week mode ends after five runs, one per target, and with exit code 0
\* exactly when one of them returned success.
C26_ExitCodes ==
    main_pc = "exited"
      => IF Mode(cli) = "week"
         THEN /\ Len(results) = 5
              /\ run_no = 5
              /\ exit_code = <<0>> <=> \E i \in 1..5 : results[i]
              /\ exit_code \in {<<0>>, <<1>>}
         ELSE /\ exit_code = <<0>> <=> result.success
              /\ exit_code \in {<<0>>, <<1>>}

C28_BuildConfig ==
    call.fn = "build_config"
      => LET a == call.cli[1]
             c == ret.config[1]
         IN /\ c = [ venue_id |-> a.venue_id,
                     facility_id_encoded |-> a.facility_id,
                     facility_id |-> a.facility_id_num,
                     facility_index |-> a.facility_index,
                     tjk_id |-> a.tjk_id,
                     retry_facility_index |-> a.retry_facility_index,
                     retry_facility_id |-> a.retry_facility_id,
                     retry_facility_id_num |-> a.retry_facility_id_num,
                     retry_tjk_id |-> a.retry_tjk_id,
                     venue_id_num |-> a.venue_id_num,
                     date |-> call.date,
                     time_start |-> call.time_start,
                     time_end |-> call.time_end,
                     neg |-> a.neg,
                     num_users |-> a.num_users,
                     purpose |-> a.purpose ]
            /\ call.mode \in {"single", "day", "week"}

C28_Witness ==
    /\ call.fn = "build_config"
    /\ call.mode = "week"
    /\ call.cli[1].facility_id_num = 115
    /\ ret.config[1].facility_id = 115
    /\ ret.config[1].facility_id_encoded = "encOther"
    /\ ret.config[1].date = 60
    /\ ret.config[1].time_start = "20:00:00"

\* C29: with single-day processes of pairwise distinct offsets running in
\* any interleaving, a result file exists only once the process of its own
\* offset has opened it; a process whose run returned leaves its file with
\* its own offset and with success equal to what its run returned, successful
\* or not; the summary made once they have all ended shows for each weekday
\* the success of that day's own process, marks as missing and failed every
\* weekday without a result file, and counts the days booked.
C29_OwnResultFile ==
    /\ \A o \in DayProcesses :
         /\ (result_files[o].exists
               => day_procs[o].pc \in {"opened", "exited"}
                    /\ day_procs[o].outcome \in {"success", "failure"})
         /\ (day_procs[o].pc = "exited"
                /\ day_procs[o].outcome \in {"success", "failure"}
               => /\ result_files[o].exists
                  /\ result_files[o].json # <<>>
                  /\ result_files[o].json[1].day_offset = o
                  /\ result_files[o].json[1].success
                       <=> day_procs[o].outcome = "success")
    /\ (summary # <<>>
          => /\ \A i \in 0..4 :
                  LET r == summary[1].final_results[i]
                  IN /\ r.success <=> day_procs[i].outcome = "success"
                     /\ r.missing <=> ~result_files[i].exists
                     /\ r.missing => ~r.success
                     /\ r.day_name = DayNames[i + 1]
             /\ summary[1].success_count =
                  Cardinality({i \in 0..4 : day_procs[i].outcome = "success"}))

C29_Witness ==
    /\ summary # <<>>
    /\ day_procs[0].outcome = "failure"
    /\ day_procs[1].outcome = "success"
    /\ day_procs[2].outcome = "raised"
    /\ day_procs[3].pc = "unused"
    /\ summary[1].final_results[0].missing = FALSE
    /\ summary[1].final_results[1].success
    /\ summary[1].final_results[2].missing
    /\ summary[1].final_results[3].missing
    /\ summary[1].success_count = 1

\* C30: a run never stops short of its return: it is at one of its steps,
\* each of which ends once its requests are answered and its sleep is over,
\* or it has returned a result.
C30_EveryRunReturns ==
    \/ pc \in {"login", "facilities", "venue_poll", "token", "poll",
                "available", "retry", "sleep"}
    \/ pc = "done" /\ result.success \in BOOLEAN /\ outcome # "none"

\* C31: the court_name of a successful run is "Gelanggang Tenis 1" exactly
\* when the facility the run used is the one at index 0 of the list: the
\* facility selected in step 2 (whose encoded id is fresh_facility_id) for a
\* primary booking, the facility at retry_facility_index for a fallback one.
C31_LabelNamesFacilityUsed ==
    (pc = "done" /\ result.success)
      => /\ last_submit.kind = "primary"
              => (result.court_name = FacilityLabel(0)
                    <=> fresh_facility_id = Encoded(1))
         /\ last_submit.kind = "fallback"
              => (result.court_name = FacilityLabel(0) <=> RetryIndex = 0)

\* C32: every availability check and every primary submission of a run is
\* sent with the facility_id and tjk_id config held when run was called,
\* also after failed fallback submissions in earlier iterations of the poll.
C32_PrimaryIdsAtPoll ==
    /\ pc \in {"poll", "available"}
         => /\ config.facility_id = config0.facility_id
            /\ config.tjk_id = config0.tjk_id
    /\ last_submit.kind = "primary"
         => /\ last_submit.idfasiliti = config0.facility_id
            /\ last_submit.tjkid = config0.tjk_id

C32_Witness ==
    /\ n_fallback = 1
    /\ before_swap.facility_id # RETRY_FACILITY_ID_NUM
    /\ config0.retry_facility_id_num = RETRY_FACILITY_ID_NUM
    /\ n_checks = 2
    /\ n_primary = 2
    /\ last_submit.kind = "primary"
    /\ last_submit.idfasiliti = FACILITY_ID_NUM

\* C33: while run polls for the slot, and when it returns on the poll
\* timeout, check_count is the number of availability checks made so far in
\* the loop (so the progress line, written when check_count % 60 = 0,
\* comes with every 60th check only).
C33_CheckCount ==
    (Polling \/ (pc = "done" /\ outcome = "timeout"))
      => check_count = n_checks

\* C34: for every current date and every offset d of 0..4,
\* get_single_day_target(d) returns the date and the times of the d-th
\* target of get_weekly_booking_targets(): 19:00:00-21:00:00 for Monday to
\* Thursday and 20:00:00-22:00:00 for Friday.
C34_SingleDayAgreesWithWeek ==
    (call.fn = "get_single_day_target" /\ call.day_offset \in 0..4)
      => LET week == WeeklyTargets(call.today)[call.day_offset + 1]
             day == ret.targets[1]
         IN /\ day.target_date = week.target_date
            /\ day.time_start = week.time_start
            /\ day.time_end = week.time_end
            /\ week.time_start
                 = (IF call.day_offset = 4 THEN "20:00:00" ELSE "19:00:00")
            /\ week.time_end
                 = (IF call.day_offset = 4 THEN "22:00:00" ELSE "21:00:00")

\* the Monday of the week that holds a date
MondayOfWeek(date) == CHOOSE m \in (date - 6)..date : m % 7 = 0
\* a target date for offset d computed on the day today: the Monday of the
\* week of today + 8 weeks plus d days, on weekday d, 50 to 60 days ahead
IsTargetDate(date, d, today) ==
    /\ date = MondayOfWeek(today + 56) + d
    /\ date % 7 = d
    /\ date - today >= 50
    /\ date - today <= 60

\* C35: on every weekday and for every offset d of 0..4 the target date of
\* get_single_day_target(d) and of the d-th weekly target is the Monday of
\* the week of today + 8 weeks plus d days (weekday d, 50 to 60 days ahead),
\* the five weekly targets are consecutive dates, get_booking_target
\* returns None exactly when today + 8 weeks is a Saturday or a Sunday, and
\* main, when it asks get_booking_target for a date or a time it was not
\* given and gets None, exits with code 1 without calling run.
C35_TargetDates ==
    /\ (call.fn = "get_single_day_target" /\ call.day_offset \in 0..4)
         => /\ Len(ret.targets) = 1
            /\ IsTargetDate(ret.targets[1].target_date, call.day_offset,
                            call.today)
    /\ call.fn = "get_weekly_booking_targets"
         => /\ Len(ret.targets) = 5
            /\ \A i \in 1..5 :
                 IsTargetDate(ret.targets[i].target_date, i - 1, call.today)
            /\ \A i \in 1..4 :
                 ret.targets[i + 1].target_date
                   = ret.targets[i].target_date + 1
    /\ call.fn = "get_booking_target"
         => /\ ret.targets = <<>> <=> (call.today + 56) % 7 \in {5, 6}
            /\ ret.targets # <<>>
                 => ret.targets[1].target_date = call.today + 56
    /\ (main_pc # "start" /\ Mode(cli) = "day" /\ cli.day_offset[1] \in 0..4)
         => /\ main_pc = "running"
            /\ IsTargetDate(config.date, cli.day_offset[1], clock_day)
    /\ (main_pc # "start" /\ Mode(cli) = "week")
         => /\ main_pc = "running"
            /\ IsTargetDate(config.date, 0, clock_day)
    /\ (main_pc # "start" /\ Mode(cli) = "single")
         => IF /\ (clock_day + 56) % 7 \in {5, 6}
               /\ (cli.date = NoDate \/ cli.time_start = "" \/ cli.time_end = "")
            THEN /\ main_pc = "exited"
                 /\ exit_code = <<1>>
                 /\ config = DefaultConfig
                 /\ pc = "login"
            ELSE /\ main_pc = "running"
                 /\ exit_code = <<>>
                 /\ config.date
                      = (IF cli.date = NoDate THEN clock_day + 56 ELSE cli.date)

C35_Witness ==
    /\ call.fn = "get_weekly_booking_targets"
    /\ call.today = 6
    /\ ret.targets[1].target_date = 56
    /\ ret.targets[5].target_date = 60
    /\ Mode(cli) = "single"
    /\ cli.date = NoDate
    /\ clock_day = 5
    /\ main_pc = "exited"
    /\ exit_code = <<1>>

\* C36: the tot of a confirmation request is the tt_jumlah of the booking
\* submission that created the booking it confirms, on the primary and on
\* the fallback path, for every config, one with its own total_price
\* included.
C36_PriceConsistent ==
    n_confirms > 0 => last_confirm.tot = last_submit.tt_jumlah

\* C37: every booking submission, in any run on the controller, carries a
\* ks_token set from a calendar page fetched no more than 2400 s plus one
\* check interval before the submission.
C37_TokenFreshAtSubmission ==
    [][ (n_primary' = n_primary + 1 \/ n_fallback' = n_fallback + 1)
          => (token_page' # <<>>
                => now' - token_page'[1].at <= STALE_AFTER + check_interval) ]_vars

\* C38: every booking submission, primary or fallback, is sent with no
\* tempahan_home.php or tempahan_listfasiliti.php request made since the
\* calendar page the ks_token held was set from.
C38_NoNavigationSinceToken ==
    [][ (n_primary' = n_primary + 1 \/ n_fallback' = n_fallback + 1)
          => (token_page' # <<>> => ~token_page'[1].left) ]_vars

\* C39: once a facility list is cached no step of any run sends a step-2
\* facility-list request and the cached list stays as it is; once ks_token
\* is set it is never cleared and step 3 of a run fetches no calendar page.
C39_SessionStateReused ==
    [][ /\ cached_facilities # <<>>
             => /\ cached_facilities' = cached_facilities
                /\ venue_poll_count' <= venue_poll_count
        /\ ks_token # NoToken
             => /\ ks_token' # NoToken
                /\ (pc = "token" => n_pages' = n_pages) ]_vars

C39_Witness ==
    /\ run_no = 2
    /\ pc = "poll"
    /\ cached_facilities # <<>>
    /\ ks_token # NoToken
    /\ venue_poll_count = 0
    /\ n_pages = 0
    /\ n_page_gets = 0
====
